---- MODULE Spec2Model ----
(***************************************************************************)
(* State-machine model of nft_snapshot.py: one run of main() over a token  *)
(* list, the request cache on disk, and the asyncio tasks of the three     *)
(* enrichment phases (holders, on-chain account, off-chain arweave).       *)
(***************************************************************************)
EXTENDS Integers, Sequences, FiniteSets, TLC

(* ------------------------------ bounds -------------------------------- *)

\* Number of distinct token identifiers the runs may see.
MaxTokens == 2
\* Cap on the HTTP 429 answers the off-chain requests of a run may receive
\* in total (the code itself has no cap).
MaxRetries == 2
\* Acquisitions the limiter of a phase grants per window (the code's
\* AsyncLimiter(100, 1) grants 100 per second).
MaxRate == 1
\* Largest count in the dicts handed to the report functions.
MaxCount == 2
Tokens == 1..MaxTokens

(* --------------------------- value domains ---------------------------- *)

\* Field names of a token record, in the order the code inserts them.
FieldOrder == <<"token", "holders", "account", "arweave">>

\* account_info["result"]["value"]["data"]["parsed"], what the ledger holds
\* for a token's largest account: odd identifiers are owned by a wallet,
\* even ones have no resolvable owner.
LedgerParsed(t) == IF t % 2 = 1 THEN "H_W1" ELSE "H_NOOWNER"

\* token_holders.get('info').get('owner')
Owner(h) == CASE h = "H_W1" -> "W1"
              [] h = "H_ME" -> "GUfCR9mK6azb9vcpsxgXyj7XRPAKJd4KMHTTVvtncGgp"
              [] OTHER -> "None"

\* Parsed account data as a TokenMap may hold them: owned by a wallet,
\* owned by a marketplace wallet, without an owner, without 'info'.
HolderValues == {"H_W1", "H_ME", "H_NOOWNER", "H_NOINFO"}

\* token_holders.get('info') is not None
HasInfo(h) == h # "H_NOINFO"

\* The unpacked metadata account: with a uri, with an empty uri, without a
\* uri key, with a value that stayed bytes (not JSON-serializable), or with
\* a uri that serves the JSON document null.
AccountValues == {"A_URI", "A_EMPTYURI", "A_NOURI", "A_BYTES", "A_NULLDOC"}

\* data_dict['account']["data"].get("uri")
Uri(a) == CASE a = "A_URI" -> "uri"
            [] a = "A_BYTES" -> "uri"
            [] a = "A_NULLDOC" -> "uri"
            [] a = "A_EMPTYURI" -> ""
            [] OTHER -> "None"

\* v.decode() failed with UnicodeDecodeError and the value stayed bytes.
HasBytes(a) == a = "A_BYTES"

\* Mutant: "is not None" in place of truthiness.
TruthyNotNone(s) == s # "None"

\* Python truthiness of an optional string.
Truthy(s) == s # "None" /\ s # ""

\* The empty JSON object.
EmptyObj == "{}"
\* resp.status values the code tests for.
StatusOk == 200
StatusTooMany == 429
\* A status that is neither of them.
StatusOther == 404

\* Bodies the off-chain endpoint may answer with: the metadata document of
\* a 200, and the error document of a failing status.
BodyOk == "B_ATTRS"
BodyErr == "B_ERR"

\* Metadata documents with a null trait value, and with a trait type
\* listed twice.
BodyNull == "B_NULL"
BodyTwice == "B_TWICE"

\* The JSON document "null": resp.json() returns None.
JsonNull == "None"

\* What resp.json() returns for the 200 answer of an account's uri.
Document(a) == IF a = "A_NULLDOC" THEN JsonNull ELSE BodyOk

\* arweave_data.get('attributes'): a list of (trait_type, value) or None.
Attributes(w) ==
    CASE w = BodyOk -> <<[trait_type |-> "Eyes", value |-> "blue"]>>
      [] w = BodyNull -> <<[trait_type |-> "Eyes", value |-> "None"],
                           [trait_type |-> "Hair", value |-> "red"]>>
      [] w = BodyTwice -> <<[trait_type |-> "Eyes", value |-> "blue"],
                            [trait_type |-> "Eyes", value |-> "green"]>>
      [] OTHER -> <<>>

\* Mutant: a null value is counted as it is.
TraitValueRaw(v) == v

\* attribute['value'] if attribute['value'] is not None else ""
TraitValue(v) == IF v = "None" THEN "" ELSE v

(* ------------------------- dictionaries ------------------------------- *)

\* A Python dict of token records: insertion order and the records.
EmptyMap == [order |-> <<>>, recs |-> [t \in {} |-> 0]]

Keys(m) == DOMAIN m.recs

\* rec.get(f) is None
FieldAbsent(rec, f) == f \notin DOMAIN rec

\* rec.get(f) is None: the key is missing or its value is None.
IsNone(rec, f) == FieldAbsent(rec, f) \/ rec[f] = JsonNull

SetField(rec, f, v) ==
    [g \in (DOMAIN rec) \cup {f} |-> IF g = f THEN v ELSE rec[g]]

\* Mutant: the tasks share one record object, so the write shows in
\* every record.
MapSetFieldShared(m, t, f, v) ==
    [m EXCEPT !.recs = [k \in Keys(m) |-> SetField(m.recs[k], f, v)]]

\* m[t][f] = v
MapSetField(m, t, f, v) ==
    [m EXCEPT !.recs = [m.recs EXCEPT ![t] = SetField(m.recs[t], f, v)]]

\* m[t] = rec for a new key (appended) or an existing one (order kept).
MapPut(m, t, rec) ==
    [order |-> IF t \in Keys(m) THEN m.order ELSE Append(m.order, t),
     recs  |-> [k \in Keys(m) \cup {t} |-> IF k = t THEN rec ELSE m.recs[k]]]

\* A Python dict of counts: insertion order and the values.
EmptyDict == [order |-> <<>>, val |-> [k \in {} |-> 0]]

\* No table written yet.
NoCsv == [columns |-> <<>>, rows |-> <<>>]

(* ------------------------- the request cache -------------------------- *)

\* The cache file: absent, or a text. A complete JSON text is closed; a
\* write that failed midway leaves an unclosed (unparseable) prefix.
NoFile == [exists |-> FALSE, closed |-> FALSE, entries |-> <<>>]

\* json.dump raises TypeError on a bytes value.
Serializable(rec) == ~("account" \in DOMAIN rec /\ HasBytes(rec["account"]))

\* Mutant: members with an empty value are left out of the text.
DumpRecordNoEmpty(rec) ==
    LET present == SelectSeq(FieldOrder,
                             LAMBDA f : f \in DOMAIN rec /\ (f = "token" \/ rec[f] # EmptyObj))
    IN  [i \in 1..Len(present) |-> <<present[i], rec[present[i]]>>]

\* The fields of a record as JSON members, in insertion order.
DumpRecord(rec) ==
    LET present == SelectSeq(FieldOrder, LAMBDA f : f \in DOMAIN rec)
    IN  [i \in 1..Len(present) |-> <<present[i], rec[present[i]]>>]

\* Index of the first record json.dump cannot serialize, 0 when none.
FirstBad(m) ==
    LET bad == {i \in 1..Len(m.order) : ~Serializable(m.recs[m.order[i]])}
    IN  IF bad = {} THEN 0 ELSE CHOOSE i \in bad : \A j \in bad : i <= j

\* json.dump(cache_data, file): the text written, complete or cut at the
\* first value that is not serializable.
JsonDump(m) ==
    LET n == IF FirstBad(m) = 0 THEN Len(m.order) ELSE FirstBad(m) - 1
    IN  [exists  |-> TRUE,
         closed  |-> FirstBad(m) = 0,
         entries |-> [i \in 1..n |->
                        [key |-> m.order[i], members |-> DumpRecord(m.recs[m.order[i]])]]]

\* A JSON object's members parsed back into a dict (a repeated name keeps
\* its last value).
LoadRecord(members) ==
    LET names == {members[i][1] : i \in 1..Len(members)}
        last(f) == CHOOSE i \in 1..Len(members) :
                      /\ members[i][1] = f
                      /\ \A j \in 1..Len(members) : members[j][1] = f => j <= i
    IN  [f \in names |-> members[last(f)][2]]

RECURSIVE LoadEntries(_, _)
LoadEntries(entries, m) ==
    IF entries = <<>> THEN m
    ELSE LoadEntries(Tail(entries),
                     MapPut(m, Head(entries).key, LoadRecord(Head(entries).members)))

\* json.load(file) of a complete text.
JsonLoad(file) == LoadEntries(file.entries, EmptyMap)

\* Outcomes of the read in load_request_cache.
LoadIO == {"ok", "read_fails"}
\* Outcomes of mkdir, open and write in save_request_cache.
SaveIO == {"ok", "mkdir_fails", "open_fails", "write_fails"}

\* The exception raised inside load_request_cache's try block, "none" when
\* the file opens, reads and parses.
LoadError(fs, io) ==
    CASE fs.dir = "notdir" -> "NotADirectoryError"
      [] fs.dir = "absent" \/ ~fs.file.exists -> "FileNotFoundError"
      [] io = "read_fails" -> "OSError"
      [] ~fs.file.closed -> "JSONDecodeError"
      [] OTHER -> "none"

\* Mutant: "except FileNotFoundError".
LoadCatchesMissingOnly(e) == e = "FileNotFoundError"

\* except Exception (line 398): the handler takes every exception class.
LoadCatches(e) ==
    e \in {"NotADirectoryError", "FileNotFoundError", "OSError", "JSONDecodeError"}

\* load_request_cache(cache_file_key): the map returned, when it returns.
load_request_cache(fs, io) ==
    IF LoadError(fs, io) = "none" THEN JsonLoad(fs.file) ELSE EmptyMap

\* The exception raised inside save_request_cache's try block, "none" when
\* the directory is there or made, the file opens and the map is written.
SaveError(fs, m, io) ==
    CASE fs.dir = "notdir" -> "FileExistsError"
      [] fs.dir = "absent" /\ io = "mkdir_fails" -> "PermissionError"
      [] io = "open_fails" -> "OSError"
      [] FirstBad(m) # 0 -> "TypeError"
      [] io = "write_fails" -> "OSError"
      [] OTHER -> "none"

\* Mutant: "except OSError".
SaveCatchesOSError(e) == e \in {"FileExistsError", "PermissionError", "OSError"}

\* except Exception (line 412): the handler takes every exception class.
SaveCatches(e) ==
    e \in {"FileExistsError", "PermissionError", "OSError", "TypeError"}

\* A cut-off cache file, as a write that failed at once leaves it.
CutFile == [exists |-> TRUE, closed |-> FALSE, entries |-> <<>>]

\* save_request_cache(cache_file_key, cache_data): the file system after
\* the call. mkdir(exist_ok=True) makes a missing directory; open("w")
\* empties the file; json.dump writes until it fails.
save_request_cache(fs, m, io) ==
    CASE fs.dir = "notdir" -> fs
      [] fs.dir = "absent" /\ io = "mkdir_fails" -> fs
      [] io = "open_fails" -> [fs EXCEPT !.dir = "dir"]
      [] FirstBad(m) # 0 -> [dir |-> "dir", file |-> JsonDump(m)]
      [] io = "write_fails" -> [dir |-> "dir", file |-> CutFile]
      [] OTHER -> [dir |-> "dir", file |-> JsonDump(m)]

(* --------------------------- aggregators ------------------------------ *)

Count(c, a) == IF a \in DOMAIN c THEN c[a] ELSE 0

RECURSIVE holder_counts_loop(_, _, _)
holder_counts_loop(m, i, counts) ==
    IF i > Len(m.order) THEN counts
    ELSE LET owner == Owner(m.recs[m.order[i]]["holders"])
             holder_address == IF Truthy(owner) THEN owner ELSE "UNKNOWN_ADDRESS"
         IN  holder_counts_loop(m, i + 1,
                 [a \in (DOMAIN counts) \cup {holder_address} |->
                     IF a = holder_address THEN Count(counts, a) + 1 ELSE counts[a]])

\* The exception that leaves holder_counts: data_dict['holders'] on a
\* record without holders, .get('owner') on a missing 'info'.
holder_counts_error(m) ==
    IF \E i \in 1..Len(m.order) :
           \/ FieldAbsent(m.recs[m.order[i]], "holders")
           \/ ~HasInfo(m.recs[m.order[i]]["holders"])
    THEN LET i == CHOOSE i \in 1..Len(m.order) :
                    /\ \/ FieldAbsent(m.recs[m.order[i]], "holders")
                       \/ ~HasInfo(m.recs[m.order[i]]["holders"])
                    /\ \A j \in 1..(i - 1) :
                          /\ ~FieldAbsent(m.recs[m.order[j]], "holders")
                          /\ HasInfo(m.recs[m.order[j]]["holders"])
         IN  IF FieldAbsent(m.recs[m.order[i]], "holders")
             THEN "KeyError" ELSE "AttributeError"
    ELSE "none"

\* holder_counts(all_token_data): the address -> count dict it prints.
holder_counts(m) == holder_counts_loop(m, 1, [a \in {} |-> 0])

RECURSIVE holder_counts_order(_, _, _)
\* The insertion order of holder_counts' dict: addresses as first met.
holder_counts_order(m, i, order) ==
    IF i > Len(m.order) THEN order
    ELSE LET owner == Owner(m.recs[m.order[i]]["holders"])
             holder_address == IF Truthy(owner) THEN owner ELSE "UNKNOWN_ADDRESS"
         IN  holder_counts_order(m, i + 1,
                 IF \E k \in 1..Len(order) : order[k] = holder_address
                 THEN order ELSE Append(order, holder_address))

\* The known marketplace wallets and their labels.
MARKETPLACE_WALLETS ==
    [a \in {"GUfCR9mK6azb9vcpsxgXyj7XRPAKJd4KMHTTVvtncGgp",
             "3D49QorJyNaL4rcpiynbuS3pRH4Y7EXEM6v6ZGaqfFGK",
             "4pUQS4Jo2dsfWzt3VgHXy3H6RYnEDd11oWPiaM2rdAPw",
             "F4ghBzHFNgJxV4wEQDchU5i7n4XWWMBSaq7CuswGiVsr"} |->
        CASE a = "GUfCR9mK6azb9vcpsxgXyj7XRPAKJd4KMHTTVvtncGgp" -> "MagicEden"
          [] a = "3D49QorJyNaL4rcpiynbuS3pRH4Y7EXEM6v6ZGaqfFGK" -> "Solanart"
          [] a = "4pUQS4Jo2dsfWzt3VgHXy3H6RYnEDd11oWPiaM2rdAPw" -> "AlphaArt"
          [] OTHER -> "DigitalEyes"]

\* The strings used as dict keys, in Python's str order.
StrOrder == <<"3D49QorJyNaL4rcpiynbuS3pRH4Y7EXEM6v6ZGaqfFGK",
              "GUfCR9mK6azb9vcpsxgXyj7XRPAKJd4KMHTTVvtncGgp",
              "UNKNOWN_ADDRESS", "W1", "W2", "a", "b", "c">>

\* a < b on str
StrLess(a, b) ==
    \E i, j \in 1..Len(StrOrder) : StrOrder[i] = a /\ StrOrder[j] = b /\ i < j

\* Mutant: the tuples are compared by value only.
TupleLessValueOnly(p, q) == p[1] < q[1]

\* (v, k) < (w, l) on tuples: by value, then by key.
TupleLess(p, q) == p[1] < q[1] \/ (p[1] = q[1] /\ StrLess(p[2], q[2]))

RECURSIVE Insert(_, _)
\* The sorted list with one more tuple, behind the tuples not above it.
Insert(list, p) ==
    IF list = <<>> THEN <<p>>
    ELSE IF TupleLess(p, Head(list)) THEN <<p>> \o list
    ELSE <<Head(list)>> \o Insert(Tail(list), p)

RECURSIVE sorted(_, _)
\* sorted(iterable): the tuples of list i.. put in ascending order.
sorted(list, i) ==
    IF i > Len(list) THEN <<>> ELSE Insert(sorted(list, i + 1), list[i])

\* Mutant: the reverse flag is dropped.
NotReversed(list) == list

\* The list back to front.
Reversed(list) == [i \in 1..Len(list) |-> list[Len(list) + 1 - i]]

\* sort_dict_by_values(dictionary, reverse): the (v, k) tuples sorted,
\* turned back into a dict that iterates in that order.
sort_dict_by_values(d, reverse) ==
    LET tuples == [i \in 1..Len(d.order) |-> <<d.val[d.order[i]], d.order[i]>>]
        holder_list == IF reverse THEN Reversed(sorted(tuples, 1))
                       ELSE sorted(tuples, 1)
    IN  [order |-> [i \in 1..Len(holder_list) |-> holder_list[i][2]],
         val   |-> [k \in {holder_list[i][2] : i \in 1..Len(holder_list)} |->
                      LET i == CHOOSE i \in 1..Len(holder_list) :
                                   holder_list[i][2] = k
                      IN  holder_list[i][1]]]

\* Mutant: every holder gets a marketplace suffix.
marketplace_suffix_always(holder) ==
    IF holder \in DOMAIN MARKETPLACE_WALLETS THEN MARKETPLACE_WALLETS[holder]
    ELSE "Unknown"

\* marketplace_suffix of print_biggest_holders, without its brackets.
marketplace_suffix(holder) ==
    IF holder \in DOMAIN MARKETPLACE_WALLETS THEN MARKETPLACE_WALLETS[holder]
    ELSE ""

\* The "holder: count suffix" lines print_biggest_holders prints for the
\* dict it sorted.
print_biggest_holders(d) ==
    [i \in 1..Len(d.order) |->
        [holder |-> d.order[i], count |-> d.val[d.order[i]],
         suffix |-> marketplace_suffix(d.order[i])]]

\* if attributes: (a list that is neither None nor empty)
HasAttributes(rec) == Attributes(rec["arweave"]) # <<>>

\* attribute_distribution's tokens_with_attributes_total.
tokens_with_attributes_total(m) ==
    Cardinality({i \in 1..Len(m.order) : HasAttributes(m.recs[m.order[i]])})

RECURSIVE attribute_loop(_, _, _)
attribute_loop(attributes, j, acc) ==
    IF j > Len(attributes) THEN acc
    ELSE LET p == <<attributes[j].trait_type, TraitValue(attributes[j].value)>>
         IN  attribute_loop(attributes, j + 1,
                 [q \in (DOMAIN acc) \cup {p} |->
                     IF q = p THEN Count(acc, q) + 1 ELSE acc[q]])

RECURSIVE attribute_counts_loop(_, _, _)
attribute_counts_loop(m, i, acc) ==
    IF i > Len(m.order) THEN acc
    ELSE attribute_counts_loop(m, i + 1,
             IF HasAttributes(m.recs[m.order[i]])
             THEN attribute_loop(Attributes(m.recs[m.order[i]]["arweave"]), 1, acc)
             ELSE acc)

\* account_data.get('data').get('name'), as a list of characters: names
\* with one '#', with none, and with two.
Name(a) ==
    CASE a = "A_NOURI" -> <<"N", "7">>
      [] a = "A_EMPTYURI" -> <<"#", "7", "#", "8">>
      [] OTHER -> <<"N", "#", "7">>

\* token_holders.get('info').get('tokenAmount').get('amount')
Amount(h) == IF h = "H_NOOWNER" THEN "0" ELSE "1"

\* token_name.find('#') + 1: the position of the first '#', 0 without one.
FindHash(name) ==
    IF \E i \in DOMAIN name : name[i] = "#"
    THEN CHOOSE i \in DOMAIN name :
             name[i] = "#" /\ \A j \in 1..(i - 1) : name[j] # "#"
    ELSE 0

\* token_name[token_name.find('#') + 1::]
Number(name) == SubSeq(name, FindHash(name) + 1, Len(name))

\* The exception that leaves holder_snapshot: a record without holders or
\* without account, or holders without 'info'.
holder_snapshot_error(m) ==
    IF \E t \in Keys(m) :
           FieldAbsent(m.recs[t], "holders") \/ FieldAbsent(m.recs[t], "account")
    THEN "KeyError"
    ELSE IF \E t \in Keys(m) : ~HasInfo(m.recs[t]["holders"])
         THEN "AttributeError" ELSE "none"

\* The columns of holder_snapshot's table.
SnapshotColumns == <<"Number", "TokenName", "Token", "HolderAddress", "TotalHeld">>

\* holder_snapshot(all_token_data, outfile_name): one row per record, in
\* map order, in one DataFrame written with one to_csv call.
holder_snapshot(m) ==
    [columns |-> SnapshotColumns,
     rows |-> [i \in 1..Len(m.order) |->
                 LET data_dict == m.recs[m.order[i]]
                     owner == Owner(data_dict["holders"])
                     token_name == Name(data_dict["account"])
                 IN  <<Number(token_name), token_name, m.order[i],
                       IF Truthy(owner) THEN owner ELSE "UNKNOWN_ADDRESS",
                       Amount(data_dict["holders"])>>]]

\* The exception that leaves attribute_distribution: data_dict['arweave']
\* on a record without arweave, arweave_data.get on an arweave of None.
attribute_distribution_error(m) ==
    IF \E i \in 1..Len(m.order) : IsNone(m.recs[m.order[i]], "arweave")
    THEN LET i == CHOOSE i \in 1..Len(m.order) :
                    /\ IsNone(m.recs[m.order[i]], "arweave")
                    /\ \A j \in 1..(i - 1) : ~IsNone(m.recs[m.order[j]], "arweave")
         IN  IF FieldAbsent(m.recs[m.order[i]], "arweave")
             THEN "KeyError" ELSE "AttributeError"
    ELSE "none"

\* attribute_distribution's attribute_counts, keyed by (trait_type, value).
attribute_counts(m) == attribute_counts_loop(m, 1, [p \in {} |-> 0])

(* ------------------------------ state --------------------------------- *)

VARIABLES
    pc,             \* position of main()
    token_list,     \* the token list file's lines
    metadata_accounts, \* the unpacked metadata account the chain holds per token
    all_token_data, \* the in-memory TokenMap
    fs,             \* cache directory and cache file
    tasks,          \* state of the asyncio task of each token
    launched,       \* (field, token) of every task created in this run
    granted,        \* acquisitions the phase's limiter granted in the current window
    sent,           \* requests sent in the current window, counted up to MaxRate + 1
    requests,       \* HTTP GETs issued per token
    throttled,      \* HTTP 429 answers received per token
    answered,       \* status of the last HTTP response per token, 0 when none
    loaded,         \* exception inside load_request_cache ("none"), "pending" before
    saved,          \* whether the last save_request_cache call succeeded
    counts,         \* holder_counts' result
    trait_total,    \* attribute_distribution's tokens_with_attributes_total
    trait_counts,   \* attribute_distribution's attribute_counts
    dictionary,     \* the dict print_biggest_holders sorts and prints
    report,         \* the lines print_biggest_holders printed
    csv             \* the table holder_snapshot wrote

vars == <<pc, token_list, metadata_accounts, all_token_data, fs, tasks, launched, granted, sent,
          requests, throttled, answered, loaded, saved, counts, trait_total, trait_counts, dictionary, report, csv>>

(* --------------------------- initial states --------------------------- *)

\* Token list files: the first n identifiers, and a file that repeats a line.
TokenLists ==
    {[i \in 1..n |-> i] : n \in 0..MaxTokens} \cup {<<1, 1>>}

\* A record as an earlier run left it after its holder phase (level 1), its
\* account step (level 2) or its arweave step (level 3).
PriorRecord(t, level, a, w) ==
    [f \in {FieldOrder[i] : i \in 1..(level + 1)} |->
        CASE f = "token" -> t
          [] f = "holders" -> "H_W1"
          [] f = "account" -> a
          [] OTHER -> w]

\* Cache contents an earlier run persisted, over the first identifier or
\* over all of them; and a record whose arweave of None was persisted as
\* null.
PriorCaches ==
    {[order |-> [i \in 1..k |-> i],
      recs  |-> [t \in 1..k |-> PriorRecord(t, level, v[1], v[2])]] :
        k \in {1, MaxTokens}, level \in 1..3,
        v \in {<<"A_URI", BodyOk>>, <<"A_NOURI", EmptyObj>>}}
    \cup {[order |-> <<1>>,
           recs  |-> [t \in {1} |-> PriorRecord(t, 3, "A_URI", JsonNull)]]}

\* The cache directory before the run: missing, blocked by a regular file
\* of that name, or holding a cut-off or a complete cache file.
InitialFs ==
    {[dir |-> "absent", file |-> NoFile],
     [dir |-> "notdir", file |-> NoFile],
     [dir |-> "dir", file |-> CutFile]}
        \cup {[dir |-> "dir", file |-> JsonDump(m)] : m \in PriorCaches}

\* On-chain metadata accounts of the collection: the first token's account
\* next to the account all other tokens have.
MetadataAccounts ==
    {f \in [Tokens -> AccountValues] :
        /\ \A t \in Tokens \ {1} : f[t] = f[MaxTokens]
        /\ <<f[1], f[MaxTokens]>> \in
              {<<"A_URI", "A_URI">>, <<"A_BYTES", "A_URI">>,
               <<"A_URI", "A_NOURI">>, <<"A_EMPTYURI", "A_NOURI">>,
               <<"A_NULLDOC", "A_NOURI">>}}

NoTasks == [t \in Tokens |-> "none"]

Init ==
    /\ pc = "start"
    /\ token_list \in TokenLists
    /\ metadata_accounts \in MetadataAccounts
    /\ all_token_data = EmptyMap
    /\ fs \in InitialFs
    /\ tasks = NoTasks
    /\ launched = {}
    /\ granted = 0
    /\ sent = 0
    /\ requests = [t \in Tokens |-> 0]
    /\ throttled = [t \in Tokens |-> 0]
    /\ answered = [t \in Tokens |-> 0]
    /\ loaded = "pending"
    /\ saved = FALSE
    /\ counts = [a \in {} |-> 0]
    /\ trait_total = 0
    /\ trait_counts = [p \in {} |-> 0]
    /\ dictionary = EmptyDict
    /\ report = <<>>
    /\ csv = NoCsv

(* ------------------------------- main --------------------------------- *)

RECURSIVE Seed(_, _)
\* for token in token_list: if token not in all_token_data: ...
Seed(m, list) ==
    IF list = <<>> THEN m
    ELSE Seed(IF Head(list) \in Keys(m) THEN m
              ELSE MapPut(m, Head(list), [f \in {"token"} |-> Head(list)]),
              Tail(list))

\* main, lines 84-87: load the cache once, add the listed tokens. An
\* exception load_request_cache does not catch leaves main().
LoadAndSeed ==
    /\ pc = "start"
    /\ \E io \in LoadIO :
         /\ loaded' = LoadError(fs, io)
         /\ IF loaded' = "none" \/ LoadCatches(loaded')
            THEN /\ all_token_data' = Seed(load_request_cache(fs, io), token_list)
                 /\ pc' = "holders_launch"
            ELSE /\ pc' = "load_raised"
                 /\ UNCHANGED all_token_data
    /\ UNCHANGED <<token_list, metadata_accounts, fs, tasks, launched, granted, sent, requests, throttled, answered,
                   saved, counts, trait_total, trait_counts, dictionary, report, csv>>

\* Mutant: "if not token_data[token].get(field)" selects empty values too.
SelectedFalsy(m, field) ==
    {t \in Keys(m) : FieldAbsent(m.recs[t], field) \/ m.recs[t][field] = EmptyObj}

\* The records a phase creates a task for: token_data[token].get(field) is None.
Selected(m, field) == {t \in Keys(m) : IsNone(m.recs[t], field)}

\* The for loop of inner/inner2: one task per selected record, then the
\* coroutine waits in as_completed.
Launch(at, field, next) ==
    /\ pc = at
    /\ tasks' = [t \in Tokens |->
                   IF t \in Selected(all_token_data, field) THEN "new" ELSE "none"]
    /\ launched' = launched \cup {<<field, t>> : t \in Selected(all_token_data, field)}
    /\ granted' = 0
    /\ sent' = 0
    /\ pc' = next
    /\ UNCHANGED <<token_list, metadata_accounts, all_token_data, fs, requests, throttled, answered, loaded, saved,
                   counts, trait_total, trait_counts, dictionary, report, csv>>

\* A task step that leaves the TokenMap alone.
TaskMoves(t, to) ==
    /\ tasks' = [tasks EXCEPT ![t] = to]
    /\ UNCHANGED <<pc, token_list, metadata_accounts, all_token_data, fs, launched, granted, sent, requests,
                   throttled, answered, loaded, saved, counts, trait_total, trait_counts, dictionary, report, csv>>

\* The current window's count with one more request.
OneMore(n) == IF n > MaxRate THEN n ELSE n + 1

\* A task step that sends a further request under the acquisition it holds.
TaskSends(t, to) ==
    /\ tasks' = [tasks EXCEPT ![t] = to]
    /\ sent' = OneMore(sent)
    /\ UNCHANGED <<pc, token_list, metadata_accounts, all_token_data, fs, launched, granted,
                   requests, throttled, answered, loaded, saved, counts, trait_total,
                   trait_counts, dictionary, report, csv>>

\* "async with limiter:" followed by the task's first request: with
\* capacity left in the window the acquisition is granted and the request
\* is sent, otherwise the task waits for capacity.
Acquire(t, to) ==
    /\ IF granted < MaxRate
       THEN /\ tasks' = [tasks EXCEPT ![t] = to]
            /\ granted' = granted + 1
            /\ sent' = OneMore(sent)
            /\ requests' = IF to = "get" THEN [requests EXCEPT ![t] = @ + 1]
                           ELSE requests
       ELSE /\ tasks' = [tasks EXCEPT ![t] = "wait"]
            /\ UNCHANGED <<granted, sent, requests>>
    /\ UNCHANGED <<pc, token_list, metadata_accounts, fs, launched, throttled, answered,
                   loaded, saved, counts, trait_total, trait_counts, dictionary, report, csv>>

\* A task step that stores its result in its record and finishes.
TaskStores(t, field, v) ==
    /\ tasks' = [tasks EXCEPT ![t] = "done"]
    /\ all_token_data' = MapSetField(all_token_data, t, field, v)
    /\ UNCHANGED <<pc, token_list, metadata_accounts, fs, launched, granted, sent, requests, throttled, answered, loaded, saved,
                   counts, trait_total, trait_counts, dictionary, report, csv>>

\* asyncio runs the ready tasks in creation order, each to its first
\* suspension, before it polls for responses.
FirstNew(t) ==
    /\ tasks[t] = "new"
    /\ \A i, j \in 1..Len(all_token_data.order) :
          (all_token_data.order[j] = t /\ i < j) => tasks[all_token_data.order[i]] # "new"

AllStarted == \A t \in Tokens : tasks[t] # "new"

\* A task is inside time.sleep(3): the event loop's thread is held, and
\* neither another task nor the awaiting coroutine runs.
Sleeping == \E t \in Tokens : tasks[t] = "backoff"

\* The request a task sends once it holds the limiter.
FirstRequest == IF pc = "arweave_await" THEN "get" ELSE "call1"

\* The limiter wakes a waiting task when the window has capacity again.
LimiterGrants(t) ==
    /\ pc \in {"holders_await", "account_await", "arweave_await"}
    /\ tasks[t] = "wait" /\ AllStarted /\ ~Sleeping
    /\ granted < MaxRate
    /\ Acquire(t, FirstRequest)
    /\ UNCHANGED all_token_data

\* The limiter's window elapses while a task waits for capacity.
WindowElapses ==
    /\ pc \in {"holders_await", "account_await", "arweave_await"}
    /\ AllStarted /\ ~Sleeping
    /\ \E t \in Tokens : tasks[t] = "wait"
    /\ granted' = 0
    /\ sent' = 0
    /\ UNCHANGED <<pc, token_list, metadata_accounts, all_token_data, fs, tasks, launched,
                   requests, throttled, answered, loaded, saved, counts, trait_total,
                   trait_counts, dictionary, report, csv>>

\* Mutant: the coroutine goes on as soon as one task has finished.
AllDoneFirst == \E t \in Tokens : tasks[t] = "done"

\* Every task the phase created has finished without an exception.
AllDone == \A t \in Tokens : tasks[t] \in {"none", "done"}

\* "await f" re-raises the exception of a failed task: the list
\* comprehension stops, inner() raises, asyncio.run cancels the tasks still
\* pending and the exception leaves main().
AwaitRaises ==
    /\ pc \in {"holders_await", "account_await", "arweave_await"}
    /\ \E t \in Tokens : tasks[t] = "failed"
    /\ ~Sleeping
    /\ tasks' = [t \in Tokens |->
                   IF tasks[t] \in {"none", "done", "failed"} THEN tasks[t]
                   ELSE "cancelled"]
    /\ pc' = "aborted"
    /\ granted' = 0
    /\ sent' = 0
    /\ UNCHANGED <<token_list, metadata_accounts, all_token_data, fs, launched, requests, throttled,
                   answered, loaded, saved, counts, trait_total, trait_counts, dictionary, report, csv>>

\* A save_request_cache(cache_file_key, all_token_data) call of main's
\* flow. An exception save_request_cache does not catch leaves main(). The
\* limiter of inner() is not used any more.
Save(at, next) ==
    /\ pc = at
    /\ \E io \in SaveIO :
         /\ fs' = save_request_cache(fs, all_token_data, io)
         /\ saved' = (SaveError(fs, all_token_data, io) = "none")
         /\ pc' = IF saved' \/ SaveCatches(SaveError(fs, all_token_data, io))
                  THEN next ELSE "save_raised"
    /\ granted' = 0
    /\ sent' = 0
    /\ UNCHANGED <<token_list, metadata_accounts, all_token_data, tasks, launched, requests,
                   throttled, answered, loaded, counts, trait_total, trait_counts, dictionary, report, csv>>

(* --------------------------- holder phase ----------------------------- *)

PopulateHoldersLaunch == Launch("holders_launch", "holders", "holders_await")

\* get_holder_info_from_solana_async: limiter acquired, first RPC sent.
HolderStart(t) ==
    /\ pc = "holders_await" /\ FirstNew(t)
    /\ Acquire(t, "call1")
    /\ UNCHANGED all_token_data

\* get_token_largest_accounts answers: the second RPC is sent, or the call
\* or the subscripting of its result raises.
HolderLargestAccounts(t) ==
    /\ pc = "holders_await" /\ tasks[t] = "call1" /\ AllStarted
    /\ \/ TaskSends(t, "call2")
       \/ TaskMoves(t, "failed")

\* get_account_info answers: holders is stored, or the call or the
\* subscripting of its result raises.
HolderAccountInfo(t) ==
    /\ pc = "holders_await" /\ tasks[t] = "call2" /\ AllStarted
    /\ \/ TaskStores(t, "holders", LedgerParsed(t))
       \/ TaskMoves(t, "failed")

\* inner(), line 173
PopulateHoldersInnerSave ==
    AllDone /\ Save("holders_await", "holders_save")

\* populate_holders_details_async, line 177
PopulateHoldersSave == Save("holders_save", "holder_counts")

\* main, line 93
HolderCounts ==
    /\ pc = "holder_counts"
    /\ IF holder_counts_error(all_token_data) = "none"
       THEN /\ counts' = holder_counts(all_token_data)
            /\ dictionary' = sort_dict_by_values(
                    [order |-> holder_counts_order(all_token_data, 1, <<>>),
                     val   |-> counts'], TRUE)
            /\ report' = print_biggest_holders(dictionary')
            /\ pc' = "account_launch"
       ELSE /\ pc' = "aborted"
            /\ UNCHANGED <<counts, dictionary, report>>
    /\ UNCHANGED <<token_list, metadata_accounts, all_token_data, fs, tasks, launched,
                   granted, sent, requests, throttled, answered, loaded, saved,
                   trait_total, trait_counts, csv>>

(* --------------------------- account step ----------------------------- *)

PopulateAccountLaunch == Launch("account_launch", "account", "account_await")

\* get_account_info_from_solana_async: limiter acquired, RPC sent.
AccountStart(t) ==
    /\ pc = "account_await" /\ FirstNew(t)
    /\ Acquire(t, "call1")
    /\ UNCHANGED all_token_data

\* The RPC answers: the unpacked account is stored, or the call, the
\* decoding or the unpacking raises.
AccountInfo(t) ==
    /\ pc = "account_await" /\ tasks[t] = "call1" /\ AllStarted
    /\ \/ TaskStores(t, "account", metadata_accounts[t])
       \/ TaskMoves(t, "failed")

\* inner(), line 210
PopulateAccountInnerSave ==
    AllDone /\ Save("account_await", "arweave_launch")

(* --------------------------- arweave step ----------------------------- *)

PopulateArweaveLaunch == Launch("arweave_launch", "arweave", "arweave_await")

\* get_arweave_metadata up to its first suspension: arweave is set to {},
\* and with a uri the limiter is acquired and the GET is sent.
ArweaveStart(t) ==
    /\ pc = "arweave_await" /\ FirstNew(t)
    /\ IF FieldAbsent(all_token_data.recs[t], "account")
       THEN TaskMoves(t, "failed")
       ELSE /\ all_token_data' =
                  IF IsNone(all_token_data.recs[t], "arweave")
                  THEN MapSetField(all_token_data, t, "arweave", EmptyObj)
                  ELSE all_token_data
            /\ IF Truthy(Uri(all_token_data.recs[t]["account"]))
               THEN Acquire(t, "get")
               ELSE /\ tasks' = [tasks EXCEPT ![t] = "done"]
                    /\ UNCHANGED <<pc, token_list, metadata_accounts, fs, launched,
                                   granted, sent, requests, throttled, answered, loaded,
                                   saved, counts, trait_total, trait_counts, dictionary, report, csv>>

RECURSIVE Throttled(_)
\* The 429 answers the tokens of S received so far.
Throttled(S) ==
    IF S = {} THEN 0
    ELSE LET t == CHOOSE x \in S : TRUE IN throttled[t] + Throttled(S \ {t})

\* What async_http_request does with one response: "retry" (sleep, GET the
\* url again), "body" (return the parsed body) or "raise". json tells
\* whether resp.json() can parse the body.
HttpOutcome(status, json) ==
    IF status # StatusOk /\ status = StatusTooMany THEN "retry"
    ELSE IF json THEN "body" ELSE "raise"

\* The body an answer carries.
BodyOf(status) == IF status = StatusOk THEN BodyOk ELSE BodyErr

\* body = await resp.json(), for the uri of account a.
Body(status, a) == IF status = StatusOk THEN Document(a) ELSE BodyOf(status)

\* Mutant: the retrying call drops the "return" and parses its own 429
\* response after the retry.
UnwindNoReturn(depth, body) == IF depth = 0 THEN body ELSE BodyErr

RECURSIVE Unwind(_, _)
\* return await async_http_request(session, url): each of the depth
\* retrying calls hands the body of the call it made to its caller.
Unwind(depth, body) == IF depth = 0 THEN body ELSE Unwind(depth - 1, body)

\* async_http_request: a response arrives. On a 429 the call enters
\* time.sleep(3).
ArweaveResponse(t) ==
    /\ pc = "arweave_await" /\ tasks[t] = "get" /\ AllStarted /\ ~Sleeping
    /\ \E status \in {StatusOk, StatusTooMany, StatusOther}, json \in BOOLEAN :
         /\ answered' = [answered EXCEPT ![t] = status]
         /\ \/ /\ HttpOutcome(status, json) = "retry"
               /\ Throttled(Tokens) < MaxRetries
               /\ throttled' = [throttled EXCEPT ![t] = @ + 1]
               /\ tasks' = [tasks EXCEPT ![t] = "backoff"]
               /\ UNCHANGED <<all_token_data, requests, granted, sent>>
            \/ /\ HttpOutcome(status, json) = "body"
               /\ tasks' = [tasks EXCEPT ![t] = "done"]
               /\ all_token_data' = MapSetField(all_token_data, t, "arweave",
                                                Unwind(throttled[t],
                                                       Body(status, all_token_data.recs[t]["account"])))
               /\ UNCHANGED <<requests, throttled, granted, sent>>
            \/ /\ HttpOutcome(status, json) = "raise"
               /\ tasks' = [tasks EXCEPT ![t] = "failed"]
               /\ UNCHANGED <<all_token_data, requests, throttled, granted, sent>>
    /\ UNCHANGED <<pc, token_list, metadata_accounts, fs, launched, loaded, saved, counts,
                   trait_total, trait_counts, dictionary, report, csv>>

\* time.sleep(3) returns after three of the limiter's windows, and the
\* call sends the GET again under the acquisition the task already holds.
BackoffEnds(t) ==
    /\ pc = "arweave_await" /\ tasks[t] = "backoff"
    /\ tasks' = [tasks EXCEPT ![t] = "get"]
    /\ requests' = [requests EXCEPT ![t] = @ + 1]
    /\ granted' = 0
    /\ sent' = 1
    /\ UNCHANGED <<pc, token_list, metadata_accounts, all_token_data, fs, launched,
                   throttled, answered, loaded, saved, counts, trait_total,
                   trait_counts, dictionary, report, csv>>

\* session.get raises (connection error, timeout).
ArweaveRequestFails(t) ==
    /\ pc = "arweave_await" /\ tasks[t] = "get" /\ AllStarted /\ ~Sleeping
    /\ TaskMoves(t, "failed")

\* inner2(), line 229
PopulateArweaveInnerSave ==
    AllDone /\ Save("arweave_await", "arweave_save")

\* populate_account_details_async, line 240
PopulateAccountSave == Save("arweave_save", "attribute_distribution")

\* main, line 99
AttributeDistribution ==
    /\ pc = "attribute_distribution"
    /\ IF attribute_distribution_error(all_token_data) = "none"
       THEN /\ trait_total' = tokens_with_attributes_total(all_token_data)
            /\ trait_counts' = attribute_counts(all_token_data)
            /\ pc' = "holder_snapshot"
       ELSE /\ pc' = "aborted"
            /\ UNCHANGED <<trait_total, trait_counts>>
    /\ UNCHANGED <<token_list, metadata_accounts, all_token_data, fs, tasks, launched, granted, sent, requests,
                   throttled, answered, loaded, saved, counts, dictionary, report, csv>>

\* main, line 108
HolderSnapshot ==
    /\ pc = "holder_snapshot"
    /\ IF holder_snapshot_error(all_token_data) = "none"
       THEN /\ csv' = holder_snapshot(all_token_data)
            /\ pc' = "done"
       ELSE /\ pc' = "aborted"
            /\ UNCHANGED csv
    /\ UNCHANGED <<token_list, metadata_accounts, all_token_data, fs, tasks, launched,
                   granted, sent, requests, throttled, answered, loaded, saved, counts,
                   trait_total, trait_counts, dictionary, report>>

Next ==
    \/ LoadAndSeed
    \/ PopulateHoldersLaunch
    \/ \E t \in Tokens : HolderStart(t)
    \/ \E t \in Tokens : HolderLargestAccounts(t)
    \/ \E t \in Tokens : HolderAccountInfo(t)
    \/ PopulateHoldersInnerSave
    \/ PopulateHoldersSave
    \/ HolderCounts
    \/ PopulateAccountLaunch
    \/ \E t \in Tokens : AccountStart(t)
    \/ \E t \in Tokens : AccountInfo(t)
    \/ PopulateAccountInnerSave
    \/ PopulateArweaveLaunch
    \/ \E t \in Tokens : ArweaveStart(t)
    \/ \E t \in Tokens : ArweaveResponse(t)
    \/ \E t \in Tokens : BackoffEnds(t)
    \/ \E t \in Tokens : ArweaveRequestFails(t)
    \/ \E t \in Tokens : LimiterGrants(t)
    \/ WindowElapses
    \/ PopulateArweaveInnerSave
    \/ PopulateAccountSave
    \/ AttributeDistribution
    \/ HolderSnapshot
    \/ AwaitRaises

Spec == Init /\ [][Next]_vars

\* asyncio.run drives the event loop until inner() returns or raises, and
\* main() runs to its end: while a step is possible, one is taken.
FairSpec == Spec /\ WF_vars(Next)

(* ------------------- the report functions alone ----------------------- *)

\* Holders, account and arweave values of the records the report
\* functions are applied to, with the number of fields present after token.
Shapes ==
    {<<0, "H_W1", "A_URI", BodyOk>>,
     <<1, "H_W1", "A_URI", BodyOk>>,
     <<3, "H_W1", "A_URI", BodyOk>>,
     <<3, "H_ME", "A_URI", BodyOk>>,
     <<3, "H_NOOWNER", "A_NOURI", EmptyObj>>,
     <<3, "H_NOINFO", "A_URI", BodyErr>>,
     <<3, "H_W1", "A_URI", BodyNull>>,
     <<3, "H_W1", "A_URI", BodyTwice>>,
     <<3, "H_W1", "A_EMPTYURI", EmptyObj>>}

\* The record of token t with the fields of a shape.
ShapedRecord(t, sh) ==
    [f \in {FieldOrder[i] : i \in 1..(sh[1] + 1)} |->
        CASE f = "token" -> t
          [] f = "holders" -> sh[2]
          [] f = "account" -> sh[3]
          [] OTHER -> sh[4]]

\* Insertion orders of the keys in S.
Orders(S) ==
    {o \in UNION {[1..n -> S] : n \in 0..Cardinality(S)} :
        \A i, j \in DOMAIN o : i # j => o[i] # o[j]}

\* TokenMaps as a caller may hand them to a report function.
ReportMaps ==
    UNION {{[order |-> o, recs |-> [t \in DOMAIN sh |-> ShapedRecord(t, sh[t])]] :
               sh \in [{o[i] : i \in DOMAIN o} -> Shapes]} : o \in Orders(Tokens)}

\* Address -> count dicts as a caller may hand them to the report functions.
Dictionaries ==
    UNION {{[order |-> o, val |-> v] : v \in [{o[i] : i \in DOMAIN o} -> 1..MaxCount]} :
              o \in Orders({"W1", "UNKNOWN_ADDRESS",
                            "GUfCR9mK6azb9vcpsxgXyj7XRPAKJd4KMHTTVvtncGgp",
                            "3D49QorJyNaL4rcpiynbuS3pRH4Y7EXEM6v6ZGaqfFGK"})}

\* A report function is about to be called on a TokenMap or on a dict.
InitReports ==
    /\ \/ /\ pc \in {"holder_counts", "attribute_distribution", "holder_snapshot"}
          /\ all_token_data \in ReportMaps
          /\ dictionary = EmptyDict
       \/ /\ pc \in {"sort_dict_by_values", "sort_dict_by_values_reverse",
                      "print_biggest_holders"}
          /\ all_token_data = EmptyMap
          /\ dictionary \in Dictionaries
    /\ token_list = <<>>
    /\ metadata_accounts = [t \in Tokens |-> "A_URI"]
    /\ fs = [dir |-> "absent", file |-> NoFile]
    /\ tasks = NoTasks
    /\ launched = {}
    /\ granted = 0
    /\ sent = 0
    /\ requests = [t \in Tokens |-> 0]
    /\ throttled = [t \in Tokens |-> 0]
    /\ answered = [t \in Tokens |-> 0]
    /\ loaded = "none"
    /\ saved = FALSE
    /\ counts = [a \in {} |-> 0]
    /\ trait_total = 0
    /\ trait_counts = [p \in {} |-> 0]
    /\ report = <<>>
    /\ csv = NoCsv

\* sort_dict_by_values(dictionary) and sort_dict_by_values(dictionary,
\* reverse=True) called on their own.
SortDictByValues ==
    /\ pc \in {"sort_dict_by_values", "sort_dict_by_values_reverse"}
    /\ dictionary' = sort_dict_by_values(dictionary, pc = "sort_dict_by_values_reverse")
    /\ pc' = "sorted"
    /\ UNCHANGED <<token_list, metadata_accounts, all_token_data, fs, tasks, launched,
                   granted, sent, requests, throttled, answered, loaded, saved, counts,
                   trait_total, trait_counts, report, csv>>

\* print_biggest_holders(tokens_total, counts) called on its own.
PrintBiggestHolders ==
    /\ pc = "print_biggest_holders"
    /\ dictionary' = sort_dict_by_values(dictionary, TRUE)
    /\ report' = print_biggest_holders(dictionary')
    /\ pc' = "printed"
    /\ UNCHANGED <<token_list, metadata_accounts, all_token_data, fs, tasks, launched,
                   granted, sent, requests, throttled, answered, loaded, saved, counts,
                   trait_total, trait_counts, csv>>

NextReports ==
    \/ HolderCounts
    \/ AttributeDistribution
    \/ HolderSnapshot
    \/ SortDictByValues
    \/ PrintBiggestHolders

Reports == InitReports /\ [][NextReports]_vars

(* ============================== claims ================================ *)

\* The field the current task of token t was created for.
TaskField(t) ==
    IF <<"arweave", t>> \in launched THEN "arweave"
    ELSE IF <<"account", t>> \in launched THEN "account"
    ELSE "holders"

Rec(t) == all_token_data.recs[t]

Pending(t) == tasks[t] \in {"new", "wait", "call1", "call2", "get", "backoff"}

RunEnded == pc \in {"done", "aborted", "load_raised", "save_raised"}

\* C1: failure isolation. When a fetch task of a phase raises, no sibling
\* task is cancelled, the field of the failed record stays absent, and the
\* run is not aborted (it goes on to the cache save, the later phases and
\* the reports).
C1_FailureIsolation ==
    /\ pc # "aborted"
    /\ \A t \in Tokens : tasks[t] # "cancelled"
    /\ \A t \in Tokens :
         tasks[t] = "failed" => FieldAbsent(Rec(t), TaskField(t))

\* The launch position of each phase and the field it fills.
Phases == {<<"holders_launch", "holders">>, <<"account_launch", "account">>,
           <<"arweave_launch", "arweave">>}

AwaitPcs == {"holders_await", "account_await", "arweave_await"}

\* C2: selection and idempotence. The launch step of a phase creates a task
\* for a record if and only if the phase's field is absent from it (missing
\* or None; a field that is present, the empty arweave object {} included,
\* gets none); and a
\* phase that created no task changes no record, issues no request and does
\* not abort.
C2_SelectionIdempotence ==
    [][/\ \A ph \in Phases :
            (pc = ph[1] /\ pc' # pc) =>
                \A t \in Tokens :
                    (tasks'[t] = "new") <=>
                        (t \in Keys(all_token_data) /\ IsNone(Rec(t), ph[2]))
       /\ (pc \in AwaitPcs /\ tasks = NoTasks) =>
            /\ all_token_data' = all_token_data
            /\ requests' = requests
            /\ pc' # "aborted"]_vars

\* C2 witness: a run over a fully populated cache holding an empty arweave
\* object has ended without creating a task or issuing a request.
C2_Witness ==
    /\ pc = "done"
    /\ launched = {}
    /\ \E t \in Keys(all_token_data) : Rec(t)["arweave"] = EmptyObj
    /\ \A t \in Tokens : requests[t] = 0

\* Positions of main() right after a save_request_cache call.
PostSave == pc \in {"holders_save", "holder_counts", "arweave_launch",
                    "arweave_save", "attribute_distribution"}

\* Same token keys and, per token, the same present fields.
SameShape(a, b) ==
    /\ Keys(a) = Keys(b)
    /\ \A t \in Keys(a) : DOMAIN a.recs[t] = DOMAIN b.recs[t]

\* C3 (as stated): after any save_request_cache(k, m), load_request_cache(k)
\* returns a map with the token keys and the present fields of m.
C3_RoundTripAlways ==
    PostSave => SameShape(load_request_cache(fs, "ok"), all_token_data)

\* C3 (amended): after a save_request_cache(k, m) that succeeded, a
\* load_request_cache(k) whose read succeeds returns a map with the token
\* keys and the present fields of m.
C3_RoundTrip ==
    (PostSave /\ saved) =>
        \A io \in LoadIO :
            LoadError(fs, io) = "none" =>
                SameShape(load_request_cache(fs, io), all_token_data)

\* C3 witness: a map of two records, one with an empty arweave object, was
\* saved successfully.
C3_Witness ==
    /\ pc = "attribute_distribution" /\ saved
    /\ Cardinality(Keys(all_token_data)) >= 2
    /\ \E t \in Keys(all_token_data) : Rec(t)["arweave"] = EmptyObj

\* Positions of main() at which a phase has just returned.
PhaseReturned == {"holder_counts", "arweave_launch", "attribute_distribution"}

\* C4 (as stated): whenever a phase has returned, the persisted cache is
\* the in-memory TokenMap.
C4_SnapshotAlways ==
    pc \in PhaseReturned => load_request_cache(fs, "ok") = all_token_data

\* C4 (amended): the cache file changes only when no task of the phase is
\* still pending, and when a phase returns after a successful save the
\* persisted cache is the in-memory TokenMap, record for record and field
\* for field.
C4_PersistAfterPhase ==
    [][/\ fs' # fs => \A t \in Tokens : ~Pending(t)
       /\ (pc' \in PhaseReturned /\ saved') =>
            load_request_cache(fs', "ok") = all_token_data']_vars

\* C4 witness: the arweave step has returned with its snapshot persisted
\* and every task it created done.
C4_Witness ==
    /\ pc = "attribute_distribution" /\ saved
    /\ \E t \in Tokens : tasks[t] = "done"
    /\ load_request_cache(fs, "ok") = all_token_data

\* Positions of main() up to the end of the holder phase, and up to the end
\* of the account step.
HolderPcs == {"start", "holders_launch", "holders_await", "holders_save",
              "holder_counts", "account_launch"}
AccountPcs == {"account_await", "arweave_launch"}

\* The phases run one after the other: no account task exists before the
\* holder phase has returned, no arweave task before the account step has.
C5_Ordering ==
    /\ pc \in HolderPcs => launched \subseteq ({"holders"} \X Tokens)
    /\ pc \in AccountPcs => launched \subseteq ({"holders", "account"} \X Tokens)
    /\ \A t \in Tokens : Pending(t) =>
         /\ pc \in AwaitPcs
         /\ pc = "holders_await" => TaskField(t) = "holders"
         /\ pc = "account_await" => TaskField(t) = "account"

\* C5: phase ordering, and a record left without holders by the holder
\* phase is still processed by the metadata phase: when the run has ended,
\* an account task and an arweave task were created for it.
C5_PhaseOrdering ==
    /\ C5_Ordering
    /\ RunEnded =>
         \A t \in Keys(all_token_data) :
             "holders" \notin DOMAIN Rec(t) =>
                 {<<"account", t>>, <<"arweave", t>>} \subseteq launched

\* C6: rate-limit retry. Every 429 is followed by exactly one more GET of
\* the same uri (k answers 429 give k + 1 requests), a 429 is never the
\* answer the task finishes with, and when the 200 with a JSON body arrives
\* nothing more is requested and arweave is that body.
C6_RateLimitRetry ==
    \A t \in Tokens :
        /\ tasks[t] = "get" => requests[t] = throttled[t] + 1
        /\ answered[t] = StatusTooMany =>
             /\ tasks[t] # "done"
             /\ requests[t] = IF tasks[t] = "backoff" THEN throttled[t]
                              ELSE throttled[t] + 1
        /\ (tasks[t] = "done" /\ answered[t] = StatusOk) =>
             /\ requests[t] = throttled[t] + 1
             /\ Rec(t)["arweave"] = Document(Rec(t)["account"])

\* C6 witness: a uri answered 429 once and then 200; two requests were
\* made and arweave is the 200 body.
C6_Witness ==
    \E t \in Tokens :
        /\ tasks[t] = "done" /\ answered[t] = StatusOk
        /\ throttled[t] = 1 /\ requests[t] = 2
        /\ Rec(t)["arweave"] = BodyOk

\* C7: non-retryable HTTP failure. After a status that is neither 200 nor
\* 429 the request is not retried, no error escapes the task, and arweave
\* is the empty object.
C7_NonRetryableFailure ==
    \A t \in Tokens :
        answered[t] = StatusOther =>
            /\ requests[t] = throttled[t] + 1
            /\ tasks[t] = "done"
            /\ Rec(t)["arweave"] = EmptyObj

\* The map without the record of token t.
Without(m, t) ==
    [order |-> SelectSeq(m.order, LAMBDA k : k # t),
     recs  |-> [k \in Keys(m) \ {t} |-> m.recs[k]]]

\* holder_address of a record, as holder_counts resolves it.
HolderAddress(rec) ==
    IF Truthy(Owner(rec["holders"])) THEN Owner(rec["holders"]) ELSE "UNKNOWN_ADDRESS"

\* A record the arweave step was run for and whose account.data has no uri
\* (the key is missing or its value is empty).
NoUriRecord(t) ==
    /\ t \in Keys(all_token_data)
    /\ <<"arweave", t>> \in launched
    /\ "account" \in DOMAIN Rec(t)
    /\ Uri(Rec(t)["account"]) \in {"None", ""}

\* C8: no-uri record. The arweave step issues no HTTP request for it and
\* leaves arweave = {}; the trait distribution (total and every counter) is
\* what it would be without the record, while the holder counts count the
\* record once under its address.
C8_NoUriRecord ==
    \A t \in Tokens :
        NoUriRecord(t) =>
            /\ requests[t] = 0
            /\ tasks[t] = "done" => Rec(t)["arweave"] = EmptyObj
            /\ pc \in {"holder_snapshot", "done"} =>
                 /\ trait_total = tokens_with_attributes_total(Without(all_token_data, t))
                 /\ trait_counts = attribute_counts(Without(all_token_data, t))
                 /\ trait_total < Cardinality(Keys(all_token_data))
                 /\ Count(counts, HolderAddress(Rec(t))) =
                      Count(holder_counts(Without(all_token_data, t)),
                            HolderAddress(Rec(t))) + 1

\* C8 witness: the run has ended with one record whose uri is empty and one
\* whose uri key is missing, next to none with metadata.
C8_Witness ==
    /\ pc = "done"
    /\ \E t \in Tokens : NoUriRecord(t) /\ Rec(t)["account"] = "A_EMPTYURI"
    /\ \E t \in Tokens : NoUriRecord(t) /\ Rec(t)["account"] = "A_NOURI"
    /\ \A t \in Tokens : requests[t] = 0
    /\ Count(counts, "UNKNOWN_ADDRESS") = 1

\* The cache file is a complete text in an existing directory.
FileParses == fs.dir = "dir" /\ fs.file.exists /\ fs.file.closed

\* C9: cache load never fails. No exception leaves load_request_cache; when
\* its try block succeeds the TokenMap is the persisted map plus the listed
\* tokens, and on every failure (directory or file missing, read error, cut
\* text) it is seeded from the token list alone.
C9_LoadNeverFails ==
    /\ pc # "load_raised"
    /\ pc = "holders_launch" =>
         /\ FileParses => loaded \in {"none", "OSError"}
         /\ ~FileParses => loaded \notin {"none", "pending"}
         /\ loaded # "none" => all_token_data = Seed(EmptyMap, token_list)
         /\ loaded = "none" =>
              \E m \in PriorCaches :
                  /\ fs.file = JsonDump(m)
                  /\ all_token_data = Seed(m, token_list)

\* C9 witness: the cache file was cut off, the load failed, and the run
\* goes on with the listed tokens only.
C9_Witness ==
    /\ pc = "holders_launch"
    /\ loaded = "JSONDecodeError"
    /\ token_list # <<>>
    /\ Keys(all_token_data) = {token_list[i] : i \in 1..Len(token_list)}

\* Positions of main() at a save_request_cache call, and where it goes on.
SaveNext == [holders_await |-> "holders_save", holders_save |-> "holder_counts",
             account_await |-> "arweave_launch", arweave_await |-> "arweave_save",
             arweave_save |-> "attribute_distribution"]

\* C10: cache save never fails. No exception leaves save_request_cache; a
\* save step leaves the TokenMap unchanged and main() goes on to its next
\* step whether the save succeeded or not; a save that succeeds has made
\* the directory when it was absent and written the map.
C10_SaveNeverFails ==
    [][/\ pc' # "save_raised"
       /\ (pc \in DOMAIN SaveNext /\ pc' \notin {pc, "aborted"}) =>
            /\ pc' = SaveNext[pc]
            /\ all_token_data' = all_token_data
            /\ saved' => (fs'.dir = "dir" /\ fs'.file = JsonDump(all_token_data))
            /\ fs.dir = "notdir" => (~saved' /\ fs' = fs)
            /\ (\E t \in Keys(all_token_data) :
                   "account" \in DOMAIN Rec(t) /\ HasBytes(Rec(t)["account"]))
                 => ~saved']_vars

\* C10 witness: the run reached its end although its last save failed on a
\* map that is not serializable, after a save had made the directory.
C10_Witness ==
    /\ pc = "done" /\ ~saved
    /\ \E t \in Keys(all_token_data) : HasBytes(Rec(t)["account"])
    /\ fs.dir = "dir"
    /\ DOMAIN trait_counts # {}

\* C11: request-rate bound. The tasks of a phase share one limiter, and in
\* no window are more than MaxRate requests sent, however many tasks run.
C11_RequestRate ==
    /\ granted <= MaxRate
    /\ sent <= MaxRate

\* Identifiers of the token list.
Listed == {token_list[i] : i \in 1..Len(token_list)}

\* What load_request_cache returned to main.
LoadedCache == IF loaded = "none" THEN JsonLoad(fs.file) ELSE EmptyMap

\* Token keys a load of the cache file would return.
PersistedKeys(f) == Keys(load_request_cache(f, "ok"))

\* After seeding the key set is the loaded cache's keys plus the listed
\* identifiers, a cached record is unchanged, a new identifier has only
\* its token field, and a repeated identifier has one record.
C12_Seeding ==
    pc = "holders_launch" =>
        /\ Keys(all_token_data) = Keys(LoadedCache) \cup Listed
        /\ \A t \in Keys(LoadedCache) : Rec(t) = LoadedCache.recs[t]
        /\ \A t \in Listed \ Keys(LoadedCache) : Rec(t) = [f \in {"token"} |-> t]
        /\ Len(all_token_data.order) = Cardinality(Keys(all_token_data))

\* C12: seeding without pruning. Seeding is as above, and no step of the
\* run removes a record from the in-memory map or from the persisted cache.
C12_SeedingWithoutPruning ==
    /\ []C12_Seeding
    /\ [][/\ Keys(all_token_data) \subseteq Keys(all_token_data')
          /\ PersistedKeys(fs) \subseteq PersistedKeys(fs')]_vars

\* The in-memory half of C12: seeding, and no record leaves the map.
C12_InMemory ==
    /\ []C12_Seeding
    /\ [][Keys(all_token_data) \subseteq Keys(all_token_data')]_vars

RECURSIVE SumOf(_)
\* The sum of the counts of a dict.
SumOf(c) ==
    IF DOMAIN c = {} THEN 0
    ELSE LET a == CHOOSE a \in DOMAIN c : TRUE
         IN  c[a] + SumOf([b \in DOMAIN c \ {a} |-> c[b]])

\* The record has no owner to count it under: no holders, no info, or no
\* owner in it.
OwnerUnresolved(rec) ==
    \/ "holders" \notin DOMAIN rec
    \/ ~HasInfo(rec["holders"])
    \/ ~Truthy(Owner(rec["holders"]))

\* C13: holder counts account for every token. On every TokenMap
\* holder_counts returns without an exception, its counts sum to the number
\* of records, and the records without a resolved owner are the ones counted
\* under "UNKNOWN_ADDRESS".
C13_HolderCounts ==
    [][pc = "holder_counts" =>
         /\ pc' # "aborted"
         /\ SumOf(counts') = Len(all_token_data.order)
         /\ Count(counts', "UNKNOWN_ADDRESS") =
              Cardinality({t \in Keys(all_token_data) : OwnerUnresolved(Rec(t))})]_vars

\* C14: biggest-holders ordering. For a nonempty dict the report has one
\* line per address with its count, the lines go down by count and, on
\* equal counts, down by address whatever the dict's insertion order, and
\* a line carries a marketplace label exactly when its address is a known
\* marketplace wallet.
C14_BiggestHolders ==
    [][(pc = "print_biggest_holders" /\ dictionary.order # <<>>) =>
         /\ Len(report') = Len(dictionary.order)
         /\ \A a \in DOMAIN dictionary.val :
              Cardinality({i \in DOMAIN report' :
                              /\ report'[i].holder = a
                              /\ report'[i].count = dictionary.val[a]}) = 1
         /\ \A i \in 1..(Len(report') - 1) :
              \/ report'[i].count > report'[i + 1].count
              \/ /\ report'[i].count = report'[i + 1].count
                 /\ StrLess(report'[i + 1].holder, report'[i].holder)
         /\ \A i \in DOMAIN report' :
              /\ report'[i].holder \in DOMAIN MARKETPLACE_WALLETS
                   => report'[i].suffix = MARKETPLACE_WALLETS[report'[i].holder]
              /\ report'[i].holder \notin DOMAIN MARKETPLACE_WALLETS
                   => report'[i].suffix = ""]_vars

\* C14 witness: a report of three lines in which a wallet and a labelled
\* marketplace wallet with equal counts follow a larger holder.
C14_Witness ==
    /\ pc = "printed"
    /\ Len(report) = 3
    /\ report[1].count = 2 /\ report[2].count = 1 /\ report[3].count = 1
    /\ report[2].holder = "W1" /\ report[2].suffix = ""
    /\ report[3].suffix = "MagicEden"

\* The (key, value) pairs of a dict.
Items(d) == {<<k, d.val[k]>> : k \in DOMAIN d.val}

\* C16: sort_dict_by_values returns a dict with exactly the key-value
\* pairs of its input, each key once, iterating by non-decreasing value by
\* default and by non-increasing value with reverse=True.
C16_SortDictByValues ==
    [][(pc = "sort_dict_by_values" \/ pc = "sort_dict_by_values_reverse") =>
         /\ Items(dictionary') = Items(dictionary)
         /\ Len(dictionary'.order) = Cardinality(DOMAIN dictionary.val)
         /\ {dictionary'.order[i] : i \in DOMAIN dictionary'.order} = DOMAIN dictionary.val
         /\ \A i \in 1..(Len(dictionary'.order) - 1) :
              /\ pc = "sort_dict_by_values" =>
                   dictionary'.val[dictionary'.order[i]]
                       <= dictionary'.val[dictionary'.order[i + 1]]
              /\ pc = "sort_dict_by_values_reverse" =>
                   dictionary'.val[dictionary'.order[i]]
                       >= dictionary'.val[dictionary'.order[i + 1]]
      ]_vars

\* C16 witness: a dict of three keys that was not in order has been sorted.
C16_Witness ==
    /\ pc = "sorted"
    /\ Len(dictionary.order) = 3
    /\ dictionary.val[dictionary.order[1]] # dictionary.val[dictionary.order[3]]
    /\ \E d \in Dictionaries :
          /\ d.val = dictionary.val
          /\ d.order # dictionary.order
          /\ d.val[d.order[1]] > d.val[d.order[2]]

\* The trait types of the metadata documents.
TraitTypes == {"Eyes", "Hair"}

\* The attributes of trait type tt in the map, as (token, position).
Entries(m, tt) ==
    {<<t, j>> \in Keys(m) \X (1..2) :
        /\ j \in DOMAIN Attributes(m.recs[t]["arweave"])
        /\ Attributes(m.recs[t]["arweave"])[j].trait_type = tt}

\* The tokens carrying a non-null value of trait type tt.
Carriers(m, tt) ==
    {t \in Keys(m) :
        \E e \in Entries(m, tt) :
            e[1] = t /\ Attributes(m.recs[t]["arweave"])[e[2]].value # "None"}

\* The sum of the counts of the values of trait type tt.
TraitSum(c, tt) ==
    SumOf([p \in {q \in DOMAIN c : q[1] = tt} |-> c[p]])

\* C15 (as stated): when attribute_distribution returns, the counts of
\* every trait type's values sum to the number of tokens carrying a non-null
\* value of that type, and the sum is at most the tokens-with-metadata total.
C15_TraitSumsAsStated ==
    [][(pc = "attribute_distribution" /\ pc' = "holder_snapshot") =>
         \A tt \in TraitTypes :
             /\ TraitSum(trait_counts', tt) = Cardinality(Carriers(all_token_data, tt))
             /\ TraitSum(trait_counts', tt) <= trait_total']_vars

\* C15 (amended): when attribute_distribution returns, the total is the
\* number of records with a non-empty attributes list; the counts of every
\* trait type's values sum to the number of attributes of that type in the
\* map, a null value being counted under the empty string; and the sum is at
\* most the total when no token lists the type twice.
C15_TraitSums ==
    [][(pc = "attribute_distribution" /\ pc' = "holder_snapshot") =>
         /\ trait_total' = Cardinality({t \in Keys(all_token_data) :
                                           Attributes(Rec(t)["arweave"]) # <<>>})
         /\ \A tt \in TraitTypes :
              /\ TraitSum(trait_counts', tt) = Cardinality(Entries(all_token_data, tt))
              /\ Count(trait_counts', <<tt, "None">>) = 0
              /\ Count(trait_counts', <<tt, "">>) =
                   Cardinality({e \in Entries(all_token_data, tt) :
                       Attributes(Rec(e[1])["arweave"])[e[2]].value = "None"})
              /\ (\A e, g \in Entries(all_token_data, tt) : e[1] = g[1] => e = g)
                   => TraitSum(trait_counts', tt) <= trait_total']_vars

\* C15 witness: the distribution of a map with a null trait value and a
\* trait type listed twice: Eyes sums to 3 over 2 tokens with metadata.
C15_Witness ==
    /\ pc = "holder_snapshot"
    /\ trait_total = 2
    /\ TraitSum(trait_counts, "Eyes") = 3
    /\ Count(trait_counts, <<"Eyes", "">>) = 1

\* The columns the snapshot is to have before the trait columns.
StatedColumns == <<"Number", "TokenName", "Token", "HolderAddress", "TotalHeld",
                   "Image", "Rank", "Rarity">>

\* The table has one row per record, in map order, with the record's
\* token, and Number is the part of the token name after its first '#'.
C17_Rows ==
    [][(pc = "holder_snapshot" /\ pc' = "done") =>
         /\ Len(csv'.rows) = Len(all_token_data.order)
         /\ \A i \in DOMAIN csv'.rows :
              /\ csv'.rows[i][3] = all_token_data.order[i]
              /\ csv'.rows[i][2] = Name(Rec(all_token_data.order[i])["account"])
              /\ \E k \in 0..Len(csv'.rows[i][2]) :
                    /\ csv'.rows[i][1] = SubSeq(csv'.rows[i][2], k + 1, Len(csv'.rows[i][2]))
                    /\ \A j \in 1..(k - 1) : csv'.rows[i][2][j] # "#"
                    /\ k > 0 => csv'.rows[i][2][k] = "#"
                    /\ k = 0 => \A j \in DOMAIN csv'.rows[i][2] : csv'.rows[i][2][j] # "#"]_vars

\* C17: holder snapshot. When holder_snapshot returns, the table it wrote
\* has one row per record in map order, with Number the part of the name
\* after '#', under the columns Number, TokenName, Token, HolderAddress,
\* TotalHeld, Image, Rank, Rarity followed by the trait columns.
C17_HolderSnapshot ==
    pc = "done" =>
        /\ Len(csv.rows) = Len(all_token_data.order)
        /\ \A i \in DOMAIN csv.rows : csv.rows[i][3] = all_token_data.order[i]
        /\ Len(csv.columns) >= Len(StatedColumns)
        /\ SubSeq(csv.columns, 1, Len(StatedColumns)) = StatedColumns
        /\ \A i \in DOMAIN csv.rows : Len(csv.rows[i]) = Len(csv.columns)

\* The field the tasks of the running phase fill.
PhaseField ==
    CASE pc = "holders_await" -> "holders"
      [] pc = "account_await" -> "account"
      [] OTHER -> "arweave"

\* C18: disjoint writes. While the tasks of a phase run, a step that
\* changes the TokenMap is the step of one pending task and changes only
\* the phase's field of the record that task was created for: the key set,
\* the map order, every other record and every other field stay as they
\* are. And whatever the completion order, a finished holder or account
\* task has stored what the chain holds for its own token.
C18_DisjointWrites ==
    /\ [][(pc \in AwaitPcs /\ all_token_data' # all_token_data) =>
            \E t \in Tokens :
                /\ Pending(t) /\ <<PhaseField, t>> \in launched
                /\ all_token_data'.order = all_token_data.order
                /\ Keys(all_token_data') = Keys(all_token_data)
                /\ \A u \in Keys(all_token_data) \ {t} :
                      all_token_data'.recs[u] = all_token_data.recs[u]
                /\ DOMAIN all_token_data'.recs[t] = DOMAIN Rec(t) \cup {PhaseField}
                /\ \A f \in DOMAIN Rec(t) \ {PhaseField} :
                      all_token_data'.recs[t][f] = Rec(t)[f]]_vars
    /\ [](\A t \in Tokens :
            /\ (pc = "holders_await" /\ tasks[t] = "done")
                 => Rec(t)["holders"] = LedgerParsed(t)
            /\ (pc = "account_await" /\ tasks[t] = "done")
                 => Rec(t)["account"] = metadata_accounts[t])

\* C18 witness: the second task of the holder phase finished before the
\* first; its record has holders, the first one's has not.
C18_Witness ==
    /\ pc = "holders_await"
    /\ tasks[1] = "call2" /\ tasks[2] = "done"
    /\ "holders" \notin DOMAIN Rec(1)
    /\ Rec(2)["holders"] = LedgerParsed(2)

\* C20: backoff is a suspension point. While one task waits out its backoff
\* after a 429, a sibling whose response is outstanding remains able to
\* receive it and write its field.
C20_BackoffSuspends ==
    \A t, u \in Tokens :
        (pc = "arweave_await" /\ tasks[t] = "backoff" /\ tasks[u] = "get")
            => ENABLED ArweaveResponse(u)

\* The case of C20: one task is in its backoff and a sibling's response is
\* outstanding.
C20_Case ==
    \E t, u \in Tokens :
        pc = "arweave_await" /\ tasks[t] = "backoff" /\ tasks[u] = "get"

\* C19: phase termination. Every remote call of the model returns and the
\* 429 answers of a run are finite (MaxRetries), so the claim's assumptions
\* hold in every behaviour. A run that has ended takes no further step, so
\* the claim requires that when the run has ended no launched task is left
\* short of completion (waiting on the limiter, pending or cancelled) and
\* the run did not end inside a phase, before that phase's cache save.
C19_PhaseTermination ==
    RunEnded =>
        /\ \A t \in Tokens : ~Pending(t) /\ tasks[t] # "cancelled"
        /\ pc # "aborted"

\* The same claim as a liveness property of FairSpec: a task waiting on
\* the limiter is granted, a launched task completes, and a phase that is
\* awaiting its tasks reaches its cache save.
C19_Eventually ==
    /\ \A t \in Tokens : (tasks[t] = "wait") ~> (tasks[t] \in {"call1", "get"})
    /\ \A t \in Tokens : (tasks[t] = "new") ~> (tasks[t] = "done")
    /\ (pc = "holders_await") ~> (pc = "holders_save")
    /\ (pc = "account_await") ~> (pc = "arweave_launch")
    /\ (pc = "arweave_await") ~> (pc = "arweave_save")

\* What does hold under FairSpec: every run ends, no task is left pending,
\* and no task retries forever once the 429 answers stop.
C19_RunEnds == <>[](RunEnded /\ \A t \in Tokens : ~Pending(t))

\* The positions of main() after a phase has returned normally from its
\* awaits, while the run has not aborted.
AfterHolders == {"holders_save", "holder_counts"}
AfterAccount == {"arweave_launch", "arweave_await", "arweave_save",
                 "attribute_distribution", "holder_snapshot", "done"}
AfterArweave == {"arweave_save", "attribute_distribution", "holder_snapshot", "done"}

\* C21: post-phase completeness. Whenever a phase has returned normally, no
\* record of the TokenMap, cached records absent from the token list
\* included, has that phase's target field absent (record.get(field) is
\* None, the test the phases select by); so holder_counts, the off-chain
\* step and attribute_distribution raise nothing on reading holders,
\* account and arweave.
C21_PostPhase ==
    /\ pc \in AfterHolders =>
          \A t \in Keys(all_token_data) : ~IsNone(Rec(t), "holders")
    /\ pc \in AfterAccount =>
          \A t \in Keys(all_token_data) : ~IsNone(Rec(t), "account")
    /\ pc \in AfterArweave =>
          \A t \in Keys(all_token_data) : ~IsNone(Rec(t), "arweave")
    /\ pc = "holder_counts" => holder_counts_error(all_token_data) # "KeyError"
    /\ pc = "attribute_distribution" =>
          attribute_distribution_error(all_token_data) = "none"

\* What does hold: after a phase has returned normally every record has
\* the key of the phase's target field, and holders and account are not
\* None.
C21_KeysPresent ==
    /\ pc \in AfterHolders =>
          \A t \in Keys(all_token_data) : ~IsNone(Rec(t), "holders")
    /\ pc \in AfterAccount =>
          \A t \in Keys(all_token_data) : ~IsNone(Rec(t), "account")
    /\ pc \in AfterArweave =>
          \A t \in Keys(all_token_data) : ~FieldAbsent(Rec(t), "arweave")

\* A phase has returned normally over a map that holds a cached record
\* absent from the token list.
C21_Case ==
    /\ pc \in AfterArweave
    /\ \E t \in Keys(all_token_data) : t \notin Listed

\* What a load of the cache file returns when its read does not fail.
Persisted(f) == load_request_cache(f, "ok")

\* Every record of the persisted cache f, with every field it has
\* populated, is in the persisted cache g.
Keeps(f, g) ==
    \A t \in Keys(Persisted(f)) :
        /\ t \in Keys(Persisted(g))
        /\ \A x \in DOMAIN Persisted(f).recs[t] :
              (x = "token" \/ ~IsNone(Persisted(f).recs[t], x)) =>
                  /\ x \in DOMAIN Persisted(g).recs[t]
                  /\ x = "token" \/ ~IsNone(Persisted(g).recs[t], x)

\* C22: persisted progress is monotone. No step of a run, whether its save
\* succeeds or fails, removes a record or a populated field from what a
\* load of the cache file returns.
C22_PersistedMonotone == [][Keeps(fs, fs')]_vars

\* What does hold: a save that succeeds in a run whose load succeeded
\* keeps every persisted record and field.
C22_SuccessfulSaves ==
    [][(loaded = "none" /\ fs' # fs /\ saved') => Keeps(fs, fs')]_vars

\* The case of C22: a save failed while writing over a cache file that
\* held populated records.
C22_Case ==
    /\ ~saved /\ fs.file.exists /\ ~fs.file.closed
    /\ \E t \in Keys(all_token_data) : ~IsNone(Rec(t), "holders")
    /\ loaded = "none"

====
